---- MODULE Spec2Model ----
(***************************************************************************)
(* Model of api/telegram.js: the Telegram webhook that onboards a user,    *)
(* records who referred them and pays a one-time referral reward.          *)
(*                                                                         *)
(* The source file holds three successive versions of the handler:         *)
(*   version 1  lines   1-178  (writes before the re-read)                 *)
(*   version 2  lines 180-378  (all reads first, then writes)              *)
(*   version 3  lines 380-646  (createOrEnsureUser/processReferralReward)  *)
(* The variable ver fixes, for a whole behaviour, which one is deployed.   *)
(*                                                                         *)
(* The record store is Firestore: users and ref_rewards are partial maps   *)
(* from document key to document, a document is a map from field name to   *)
(* value.  A transaction records the documents it reads; its commit is     *)
(* refused when one of them was changed in between (stale), and the body   *)
(* is then run again from fresh reads, at most MaxAttempts times.          *)
(***************************************************************************)
EXTENDS Integers, FiniteSets, Sequences, TLC

\* ---------------------------------------------------------------- bounds
MaxInvocations == 3          \* handler invocations started in one behaviour
MaxAttempts == 2             \* attempts of one runTransaction (the SDK's bound)
MaxRuns == 3                 \* reward-transaction runs in the reward-only system

Procs == {"p1", "p2"}        \* handler executions that may overlap
UserIds == {"u1", "u2"}      \* Telegram users who send /start
Strangers == {"u3"}          \* ids named in referral links that never send /start
Names == {"n1", "n2"}        \* first names a user may carry
Null == "null"               \* JavaScript null (no referral id, no photo)
Versions == {1, 2, 3}

\* --------------------------------------------------------- program values
Reward == 500

VARIABLES
  ver,          \* the deployed version of the handler
  users,        \* collection users: key -> document
  ref_rewards,  \* collection ref_rewards: key -> document
  pc,           \* per execution: where the handler stands
  req,          \* per execution: the event (userId, referralId, name)
  snapExists,   \* per execution: userSnap.exists of getDocSafe (version 3)
  userDoc,      \* per execution: the transaction's snapshot of the user
  referrerDoc,  \* per execution: the transaction's snapshot of the referrer
  attempts,     \* per execution: attempts of the running transaction
  stale,        \* per execution: a document read by the transaction changed
  started,      \* handler invocations started so far
  welcomed,     \* welcome messages sent so far
  inbox         \* the events Telegram may deliver (each any number of times)

vars == <<ver, users, ref_rewards, pc, req, snapExists, userDoc, referrerDoc,
          attempts, stale, started, welcomed, inbox>>

\* -------------------------------------------------------------- documents
EmptyDoc == [f \in {} |-> TRUE]

Has(d, f) == f \in DOMAIN d

\* d.f || dflt for a number field: a missing field reads as undefined
NumOr0(d, f) == IF Has(d, f) THEN d[f] ELSE 0

\* JavaScript truthiness of a referral id / refferBy value
Truthy(v) == v # Null

\* d.refferBy, with undefined folded into null (both falsy)
RefferByOf(d) == IF Has(d, "refferBy") THEN d["refferBy"] ELSE Null

\* d.rewardGiven === true
RewardGivenOf(d) == Has(d, "rewardGiven") /\ d["rewardGiven"] = TRUE

\* Firestore merge of the fields of upd into d
Merge(d, upd) ==
  [f \in (DOMAIN d) \cup (DOMAIN upd) |-> IF f \in DOMAIN upd THEN upd[f] ELSE d[f]]

Put(coll, key, d) ==
  [k \in (DOMAIN coll) \cup {key} |-> IF k = key THEN d ELSE coll[k]]

\* a DocumentSnapshot read inside a transaction
Snap(coll, key) ==
  IF key \in DOMAIN coll
    THEN [read |-> TRUE, key |-> key, exists |-> TRUE, data |-> coll[key]]
    ELSE [read |-> TRUE, key |-> key, exists |-> FALSE, data |-> EmptyDoc]

\* no document read (referrerDoc = null)
NoSnap == [read |-> FALSE, key |-> Null, exists |-> FALSE, data |-> EmptyDoc]

\* ------------------------------------------------------------- mutations
\* one buffered write: kind is "set" (overwrite), "merge" (set with
\* {merge: true}) or "update"; inc holds the increment() transforms
Mut(coll, key, kind, data, inc) ==
  [coll |-> coll, key |-> key, kind |-> kind, data |-> data, inc |-> inc]

WriteDoc(old, m) ==
  LET base   == IF m.kind = "set" THEN EmptyDoc ELSE old
      merged == Merge(base, m.data)
  IN [f \in (DOMAIN merged) \cup (DOMAIN m.inc) |->
        IF f \in DOMAIN m.inc THEN NumOr0(base, f) + m.inc[f] ELSE merged[f]]

ApplyMut(db, m) ==
  LET coll == db[m.coll]
      old  == IF m.key \in DOMAIN coll THEN coll[m.key] ELSE EmptyDoc
  IN IF m.kind = "update" /\ m.key \notin DOMAIN coll
       THEN db
       ELSE [db EXCEPT ![m.coll] = Put(coll, m.key, WriteDoc(old, m))]

RECURSIVE ApplyAll(_, _)
ApplyAll(db, ms) ==
  IF ms = <<>> THEN db ELSE ApplyAll(ApplyMut(db, Head(ms)), Tail(ms))

\* ------------------------------------------------------------ the events
\* an inbound "/start" message: who sent it, the word that follows /start
\* in its text (field referralId; Null when there is none), the sender's
\* first name, and who runs it: the webhook handler, or a direct call of the
\* reward transaction
Event(u, tok, nm) ==
  [userId |-> u, referralId |-> tok, name |-> nm, caller |-> "handler"]

DirectCall(u, tok) ==
  [userId |-> u, referralId |-> tok, name |-> "n1", caller |-> "direct"]

Tokens == UserIds \cup Strangers \cup {Null}

Events == {Event(u, tok, nm) : u \in UserIds, tok \in Tokens, nm \in Names}

DirectCalls == {DirectCall(u, tok) : u \in UserIds, tok \in Tokens}

NoReq == [userId |-> Null, referralId |-> Null, name |-> Null, caller |-> Null]

\* the payloads of referral links that carry a prefix: "ref<id>", "ref_<id>"
RefPayload(r) == IF r = "u1" THEN "refu1" ELSE "refu2"
RefUnderscorePayload(r) == IF r = "u1" THEN "ref_u1" ELSE "ref_u2"

PrefixedPayloads ==
  {RefPayload(r) : r \in UserIds} \cup {RefUnderscorePayload(r) : r \in UserIds}

\* payload.startsWith('ref')
StartsWithRef(s) == s \in PrefixedPayloads

\* payload.replace('ref', ''): the first "ref" is cut out, nothing else
StripRef(s) ==
  CASE s = "refu1"  -> "u1"
    [] s = "refu2"  -> "u2"
    [] s = "ref_u1" -> "_u1"
    [] s = "ref_u2" -> "_u2"
    [] OTHER        -> s

\* the referral id the handler works with: versions 1 and 2 call
\* extractReferralId, version 3 takes the word after /start as it is
ExtractReferralId(v, payload) ==
  IF v = 3 THEN payload
  ELSE IF Truthy(payload) /\ StartsWithRef(payload) THEN StripRef(payload)
  ELSE payload

\* the event as the handler holds it after the extraction
Request(v, e) == [e EXCEPT !.referralId = ExtractReferralId(v, e.referralId)]

\* --------------------------------------------------- the ensure-user step
\* versions 1 and 2: the identity fields merged into the user document
IdentityData(e) ==
  [id |-> e.userId, name |-> e.name, photoURL |-> Null, frontendOpened |-> TRUE]

\* version 3: baseData
BaseData(e) ==
  [id |-> e.userId, name |-> e.name, photoURL |-> Null, frontendOpened |-> TRUE]

\* version 3: the document written for a user getDocSafe did not find
NewUserDoc(e) ==
  [id |-> e.userId, name |-> e.name, photoURL |-> Null, frontendOpened |-> TRUE,
   coins |-> 0, reffer |-> 0,
   refferBy |-> IF Truthy(e.referralId) THEN e.referralId ELSE Null,
   tasksCompleted |-> 0, totalWithdrawals |-> 0, rewardGiven |-> FALSE]

\* a setDoc that merges the whole new-user document whatever the existence
\* read returned
EnsureUserWriteDefaults(v, e, exists) ==
  Mut("users", e.userId, "merge", NewUserDoc(e), EmptyDoc)

\* the setDoc of the ensure-user step; exists is what getDocSafe returned
EnsureUserWrite(v, e, exists) ==
  IF v = 3
    THEN IF ~exists
           THEN Mut("users", e.userId, "set", NewUserDoc(e), EmptyDoc)
           ELSE Mut("users", e.userId, "merge", BaseData(e), EmptyDoc)
    ELSE Mut("users", e.userId, "merge", IdentityData(e), EmptyDoc)

\* version 3, processReferralReward line 480: no transaction is run
InvalidReferral(e) == ~Truthy(e.referralId) \/ e.referralId = e.userId

\* ------------------------------------------------ the transaction bodies
Defaults ==
  [coins |-> 0, reffer |-> 0, tasksCompleted |-> 0, totalWithdrawals |-> 0,
   rewardGiven |-> FALSE]

LedgerEntry(u, r) == [userId |-> u, referrerId |-> r, reward |-> Reward]

\* version 1: the writes buffered before the re-read of the user
EarlyWrites1(e, uSnap) ==
  LET data == uSnap.data IN
  (IF ~Has(data, "coins")
     THEN <<Mut("users", e.userId, "update", Defaults, EmptyDoc)>> ELSE <<>>)
  \o
  (IF ~Truthy(RefferByOf(data)) /\ Truthy(e.referralId) /\ e.referralId # e.userId
     THEN <<Mut("users", e.userId, "update", [refferBy |-> e.referralId], EmptyDoc)>>
     ELSE <<>>)

\* version 1: the referrer is read when the reward may be due
NeedsReferrer1(uSnap) ==
  LET fresh == uSnap.data IN
  /\ Has(fresh, "frontendOpened") /\ fresh["frontendOpened"] = TRUE
  /\ ~RewardGivenOf(fresh)
  /\ Truthy(RefferByOf(fresh))

\* version 1: the writes of the reward
Writes1(e, uSnap, rSnap) ==
  IF NeedsReferrer1(uSnap) /\ rSnap.exists
    THEN << Mut("users", RefferByOf(uSnap.data), "update",
                [coins  |-> NumOr0(rSnap.data, "coins") + Reward,
                 reffer |-> NumOr0(rSnap.data, "reffer") + 1], EmptyDoc),
            Mut("users", e.userId, "update", [rewardGiven |-> TRUE], EmptyDoc),
            Mut("ref_rewards", e.userId, "set",
                LedgerEntry(e.userId, RefferByOf(uSnap.data)), EmptyDoc) >>
    ELSE <<>>

\* mutant of FinalReferrerId: the test referralId !== userId (line 279) is
\* missing
FinalReferrerIdSelf(e, uSnap) ==
  LET currentReferrer == RefferByOf(uSnap.data) IN
  IF Truthy(currentReferrer) THEN currentReferrer
  ELSE IF Truthy(e.referralId) THEN e.referralId
  ELSE Null

\* version 2: finalReferrerId (the stored referrer, else the event's)
FinalReferrerId(e, uSnap) ==
  LET currentReferrer == RefferByOf(uSnap.data) IN
  IF Truthy(currentReferrer) THEN currentReferrer
  ELSE IF Truthy(e.referralId) /\ e.referralId # e.userId THEN e.referralId
  ELSE Null

\* version 2: the referrer is read only if a reward may be due
NeedsReferrer2(e, uSnap) ==
  Truthy(FinalReferrerId(e, uSnap)) /\ ~RewardGivenOf(uSnap.data)

\* mutant of UserUpdates2: the defaults are written whether or not the
\* document already has coins
UserUpdates2Reset(e, uSnap, rSnap) ==
  LET userData == uSnap.data
      final    == FinalReferrerId(e, uSnap)
      u2 == IF ~Truthy(RefferByOf(userData)) /\ Truthy(final)
              THEN Merge(Defaults, [refferBy |-> final]) ELSE Defaults
  IN IF rSnap.exists /\ ~RewardGivenOf(userData)
       THEN Merge(u2, [rewardGiven |-> TRUE]) ELSE u2

\* version 2: userUpdates
UserUpdates2(e, uSnap, rSnap) ==
  LET userData == uSnap.data
      final    == FinalReferrerId(e, uSnap)
      u1 == IF ~Has(userData, "coins") THEN Defaults ELSE EmptyDoc
      u2 == IF ~Truthy(RefferByOf(userData)) /\ Truthy(final)
              THEN Merge(u1, [refferBy |-> final]) ELSE u1
  IN IF rSnap.exists /\ ~RewardGivenOf(userData)
       THEN Merge(u2, [rewardGiven |-> TRUE]) ELSE u2

\* version 2: the write phase
Writes2(e, uSnap, rSnap) ==
  LET final   == FinalReferrerId(e, uSnap)
      updates == UserUpdates2(e, uSnap, rSnap)
  IN IF ~uSnap.exists THEN <<>>
     ELSE
       (IF rSnap.exists /\ ~RewardGivenOf(uSnap.data)
          THEN << Mut("users", final, "update",
                      [coins  |-> NumOr0(rSnap.data, "coins") + Reward,
                       reffer |-> NumOr0(rSnap.data, "reffer") + 1], EmptyDoc),
                  Mut("ref_rewards", e.userId, "set",
                      LedgerEntry(e.userId, final), EmptyDoc) >>
          ELSE <<>>)
       \o
       (IF DOMAIN updates # {}
          THEN <<Mut("users", e.userId, "update", updates, EmptyDoc)>> ELSE <<>>)

\* mutant of CurrentReferrer3: the referral id of the event wins over the
\* stored referrer
CurrentReferrer3Token(e, uSnap) ==
  IF Truthy(e.referralId) THEN e.referralId ELSE RefferByOf(uSnap.data)

\* version 3: currentReferrer of processReferralReward
CurrentReferrer3(e, uSnap) ==
  LET stored == RefferByOf(uSnap.data) IN
  IF ~Truthy(stored) /\ Truthy(e.referralId) THEN e.referralId ELSE stored

\* mutant of Writes3: the check of rewardGiven (line 499) is missing
Writes3NoGuard(e, uSnap) ==
  LET stored          == RefferByOf(uSnap.data)
      currentReferrer == CurrentReferrer3(e, uSnap)
      assign ==
        IF ~Truthy(stored) /\ Truthy(e.referralId)
          THEN <<Mut("users", e.userId, "merge",
                     [refferBy |-> currentReferrer], EmptyDoc)>>
          ELSE <<>>
  IN IF ~uSnap.exists THEN <<>>
     ELSE IF ~Truthy(currentReferrer) THEN assign
     ELSE assign \o
          << Mut("users", e.referralId, "merge", EmptyDoc,
                 [coins |-> Reward, reffer |-> 1]),
             Mut("users", e.userId, "update", [rewardGiven |-> TRUE], EmptyDoc),
             Mut("ref_rewards", e.userId, "set",
                 LedgerEntry(e.userId, currentReferrer), EmptyDoc) >>

\* a transaction body without the test userSnap.exists()
Writes3NoExistsCheck(e, uSnap) ==
  LET stored          == RefferByOf(uSnap.data)
      currentReferrer == CurrentReferrer3(e, uSnap)
      assign ==
        IF ~Truthy(stored) /\ Truthy(e.referralId)
          THEN <<Mut("users", e.userId, "merge",
                     [refferBy |-> currentReferrer], EmptyDoc)>>
          ELSE <<>>
  IN IF RewardGivenOf(uSnap.data) THEN <<>>
     ELSE IF ~Truthy(currentReferrer) THEN assign
     ELSE assign \o
          << Mut("users", e.referralId, "merge", EmptyDoc,
                 [coins |-> Reward, reffer |-> 1]),
             Mut("users", e.userId, "update", [rewardGiven |-> TRUE], EmptyDoc),
             Mut("ref_rewards", e.userId, "set",
                 LedgerEntry(e.userId, currentReferrer), EmptyDoc) >>

\* version 3: the writes of the transaction of processReferralReward
Writes3(e, uSnap) ==
  LET stored          == RefferByOf(uSnap.data)
      currentReferrer == CurrentReferrer3(e, uSnap)
      assign ==
        IF ~Truthy(stored) /\ Truthy(e.referralId)
          THEN <<Mut("users", e.userId, "merge",
                     [refferBy |-> currentReferrer], EmptyDoc)>>
          ELSE <<>>
  IN IF ~uSnap.exists THEN <<>>
     ELSE IF RewardGivenOf(uSnap.data) THEN <<>>
     ELSE IF ~Truthy(currentReferrer) THEN assign
     ELSE assign \o
          << Mut("users", e.referralId, "merge", EmptyDoc,
                 [coins |-> Reward, reffer |-> 1]),
             Mut("users", e.userId, "update", [rewardGiven |-> TRUE], EmptyDoc),
             Mut("ref_rewards", e.userId, "set",
                 LedgerEntry(e.userId, currentReferrer), EmptyDoc) >>

\* the writes a transaction body hands to commit
TxWrites(v, e, uSnap, rSnap) ==
  IF v = 1 THEN Writes1(e, uSnap, rSnap)
  ELSE IF v = 2 THEN Writes2(e, uSnap, rSnap)
  ELSE Writes3(e, uSnap)

\* whether the body reads the referrer after the user
ReadsReferrer(v, e, uSnap) ==
  IF v = 1 THEN NeedsReferrer1(uSnap)
  ELSE IF v = 2 THEN uSnap.exists /\ NeedsReferrer2(e, uSnap)
  ELSE FALSE

\* the key of the referrer document the body reads
ReferrerKey(v, e, uSnap) ==
  IF v = 1 THEN RefferByOf(uSnap.data) ELSE FinalReferrerId(e, uSnap)

\* ------------------------------------------------------------ the actions
DB == [users |-> users, ref_rewards |-> ref_rewards]

\* the documents the running transaction of q has read
ReadKeys(q) ==
  {sn.key : sn \in {x \in {userDoc[q], referrerDoc[q]} : x.read}}

DocOf(coll, k) == IF k \in DOMAIN coll THEN coll[k] ELSE EmptyDoc

Changed(old, new, k) ==
  (k \in DOMAIN old) # (k \in DOMAIN new) \/ DocOf(old, k) # DocOf(new, k)

\* a write by p that turns users into newUsers makes every other running
\* transaction that has read a changed document fail at its commit
StaleAfter(p, newUsers) ==
  [q \in Procs |->
     IF q = p THEN stale[q]
     ELSE stale[q] \/ \E k \in ReadKeys(q) : Changed(users, newUsers, k)]

\* the handler starts on an inbound event
Start(p) ==
  /\ pc[p] = "idle"
  /\ started < MaxInvocations
  /\ \E e \in inbox :
       /\ e.caller = "handler"
       /\ req' = [req EXCEPT ![p] = Request(ver, e)]
  /\ pc' = [pc EXCEPT ![p] = IF ver = 3 THEN "getDocSafe" ELSE "setDoc"]
  /\ started' = started + 1
  /\ UNCHANGED <<ver, users, ref_rewards, snapExists, userDoc, referrerDoc,
                 attempts, stale, welcomed, inbox>>

\* processReferralReward (version 3) or the runTransaction call (versions
\* 1 and 2) run on its own, without the ensure-user step
BeginReward(p) ==
  /\ pc[p] = "idle"
  /\ started < MaxRuns
  /\ \E e \in inbox :
       /\ e.caller = "direct"
       /\ req' = [req EXCEPT ![p] = e]
       /\ pc' = [pc EXCEPT ![p] =
                   IF ver = 3 /\ InvalidReferral(e) THEN "idle" ELSE "txGetUser"]
  /\ started' = started + 1
  /\ attempts' = [attempts EXCEPT ![p] = 1]
  /\ UNCHANGED <<ver, users, ref_rewards, snapExists, userDoc, referrerDoc,
                 stale, welcomed, inbox>>

\* version 3: const userSnap = await getDocSafe(userRef)
GetDocSafe(p) ==
  /\ pc[p] = "getDocSafe"
  /\ snapExists' = [snapExists EXCEPT ![p] = req[p].userId \in DOMAIN users]
  /\ pc' = [pc EXCEPT ![p] = "setDoc"]
  /\ UNCHANGED <<ver, users, ref_rewards, req, userDoc, referrerDoc, attempts,
                 stale, started, welcomed, inbox>>

\* the setDoc of the ensure-user step, then the entry into the reward logic
SetDoc(p) ==
  /\ pc[p] = "setDoc"
  /\ LET db2 == ApplyMut(DB, EnsureUserWrite(ver, req[p], snapExists[p])) IN
       /\ users' = db2.users
       /\ stale' = StaleAfter(p, db2.users)
  /\ pc' = [pc EXCEPT ![p] =
              IF ver = 3 /\ InvalidReferral(req[p]) THEN "send" ELSE "txGetUser"]
  /\ attempts' = [attempts EXCEPT ![p] = 1]
  /\ snapExists' = [snapExists EXCEPT ![p] = FALSE]
  /\ UNCHANGED <<ver, ref_rewards, req, userDoc, referrerDoc, started,
                 welcomed, inbox>>

\* where the handler goes once the reward logic is over
AfterReward(p) == IF req[p].caller = "direct" THEN "idle" ELSE "send"

\* where it goes when runTransaction rejects: version 3 catches the error in
\* processReferralReward, versions 1 and 2 in the handler's outer catch,
\* which answers without sending the welcome message
AfterFailure(p) == IF ver = 3 THEN AfterReward(p) ELSE "idle"

\* the transaction's first read: transaction.get(userRef)
TxGetUser(p) ==
  /\ pc[p] = "txGetUser"
  /\ LET sn == Snap(users, req[p].userId) IN
       /\ userDoc' = [userDoc EXCEPT ![p] = sn]
       /\ pc' = [pc EXCEPT ![p] =
                   IF ver = 1 /\ sn.exists THEN "txReGet"
                   ELSE IF ReadsReferrer(ver, req[p], sn) THEN "txGetReferrer"
                   ELSE "txCommit"]
  /\ referrerDoc' = [referrerDoc EXCEPT ![p] = NoSnap]
  /\ stale' = [stale EXCEPT ![p] = FALSE]
  /\ UNCHANGED <<ver, users, ref_rewards, req, snapExists, attempts, started,
                 welcomed, inbox>>

\* a runTransaction that tries again after every conflict
RetryNoBound(p) ==
  /\ pc' = [pc EXCEPT ![p] = "txGetUser"]
  /\ attempts' = [attempts EXCEPT ![p] = attempts[p] + 1]
  /\ req' = req
  /\ userDoc' = [userDoc EXCEPT ![p] = NoSnap]
  /\ referrerDoc' = [referrerDoc EXCEPT ![p] = NoSnap]
  /\ stale' = [stale EXCEPT ![p] = FALSE]

\* what ends one attempt that cannot commit: another attempt, or the
\* rejection of runTransaction once the attempts are used up
Retry(p) ==
  /\ pc' = [pc EXCEPT ![p] =
              IF attempts[p] < MaxAttempts THEN "txGetUser" ELSE AfterFailure(p)]
  /\ attempts' = [attempts EXCEPT ![p] =
                    IF attempts[p] < MaxAttempts THEN attempts[p] + 1 ELSE 0]
  /\ req' = [req EXCEPT ![p] =
               IF attempts[p] < MaxAttempts \/ AfterFailure(p) # "idle"
                 THEN req[p] ELSE NoReq]
  /\ userDoc' = [userDoc EXCEPT ![p] = NoSnap]
  /\ referrerDoc' = [referrerDoc EXCEPT ![p] = NoSnap]
  /\ stale' = [stale EXCEPT ![p] = FALSE]

\* version 1: the second transaction.get(userRef).  The SDK refuses a read
\* after a write (an error that is not retried), and aborts the attempt
\* when the document changed between the two reads
TxReGet(p) ==
  /\ pc[p] = "txReGet"
  /\ IF EarlyWrites1(req[p], userDoc[p]) # <<>>
       THEN /\ pc' = [pc EXCEPT ![p] = "idle"]
            /\ req' = [req EXCEPT ![p] = NoReq]
            /\ attempts' = [attempts EXCEPT ![p] = 0]
            /\ userDoc' = [userDoc EXCEPT ![p] = NoSnap]
            /\ referrerDoc' = [referrerDoc EXCEPT ![p] = NoSnap]
            /\ stale' = [stale EXCEPT ![p] = FALSE]
       ELSE IF stale[p]
         THEN Retry(p)
         ELSE /\ pc' = [pc EXCEPT ![p] =
                          IF ReadsReferrer(ver, req[p], userDoc[p])
                            THEN "txGetReferrer" ELSE "txCommit"]
              /\ UNCHANGED <<req, attempts, userDoc, referrerDoc, stale>>
  /\ UNCHANGED <<ver, users, ref_rewards, snapExists, started, welcomed, inbox>>

\* transaction.get(referrerRef)
TxGetReferrer(p) ==
  /\ pc[p] = "txGetReferrer"
  /\ referrerDoc' = [referrerDoc EXCEPT ![p] =
                       Snap(users, ReferrerKey(ver, req[p], userDoc[p]))]
  /\ pc' = [pc EXCEPT ![p] = "txCommit"]
  /\ UNCHANGED <<ver, users, ref_rewards, req, snapExists, userDoc, attempts,
                 stale, started, welcomed, inbox>>

\* the commit: refused when a document read has changed, else every
\* buffered write is applied at once
TxCommit(p) ==
  /\ pc[p] = "txCommit"
  /\ IF stale[p]
       THEN /\ Retry(p)
            /\ UNCHANGED <<users, ref_rewards>>
       ELSE LET db2 == ApplyAll(DB, TxWrites(ver, req[p], userDoc[p], referrerDoc[p]))
            IN /\ users' = db2.users
               /\ ref_rewards' = db2.ref_rewards
               /\ stale' = [StaleAfter(p, db2.users) EXCEPT ![p] = FALSE]
               /\ pc' = [pc EXCEPT ![p] = AfterReward(p)]
               /\ req' = [req EXCEPT ![p] =
                            IF AfterReward(p) = "idle" THEN NoReq ELSE req[p]]
               /\ attempts' = [attempts EXCEPT ![p] = 0]
               /\ userDoc' = [userDoc EXCEPT ![p] = NoSnap]
               /\ referrerDoc' = [referrerDoc EXCEPT ![p] = NoSnap]
  /\ UNCHANGED <<ver, snapExists, started, welcomed, inbox>>

\* bot.sendPhoto: the welcome message, then the handler answers
Send(p) ==
  /\ pc[p] = "send"
  /\ pc' = [pc EXCEPT ![p] = "idle"]
  /\ req' = [req EXCEPT ![p] = NoReq]
  /\ attempts' = [attempts EXCEPT ![p] = 0]
  /\ welcomed' = welcomed + 1
  /\ UNCHANGED <<ver, users, ref_rewards, snapExists, userDoc, referrerDoc,
                 stale, started, inbox>>

\* ------------------------------------------------------ the specifications
NoUsers == [k \in {} |-> EmptyDoc]

InitProcs ==
  /\ pc = [p \in Procs |-> "idle"]
  /\ req = [p \in Procs |-> NoReq]
  /\ snapExists = [p \in Procs |-> FALSE]
  /\ userDoc = [p \in Procs |-> NoSnap]
  /\ referrerDoc = [p \in Procs |-> NoSnap]
  /\ attempts = [p \in Procs |-> 0]
  /\ stale = [p \in Procs |-> FALSE]
  /\ started = 0
  /\ welcomed = 0

\* the webhook on an empty store, any event deliverable any number of times
Init ==
  /\ ver \in Versions
  /\ users = NoUsers
  /\ ref_rewards = NoUsers
  /\ inbox = Events
  /\ InitProcs

Next ==
  \E p \in Procs :
    \/ Start(p)
    \/ GetDocSafe(p)
    \/ SetDoc(p)
    \/ TxGetUser(p)
    \/ TxReGet(p)
    \/ TxGetReferrer(p)
    \/ TxCommit(p)
    \/ Send(p)

Spec == Init /\ [][Next]_vars

\* -------------------------------------------- one handler run, start to end
EmptyDB == [users |-> NoUsers, ref_rewards |-> NoUsers]

\* the store after the handler has run alone on event e from store db
HandleOnce(v, db, ev) ==
  LET e     == Request(v, ev)
      db1   == ApplyMut(db, EnsureUserWrite(v, e, e.userId \in DOMAIN db.users))
      uSnap == Snap(db1.users, e.userId)
      rSnap == IF ReadsReferrer(v, e, uSnap)
                 THEN Snap(db1.users, ReferrerKey(v, e, uSnap)) ELSE NoSnap
  IN IF v = 3 /\ InvalidReferral(e) THEN db1
     ELSE IF v = 1 /\ EarlyWrites1(e, uSnap) # <<>> THEN db1
     ELSE ApplyAll(db1, TxWrites(v, e, uSnap, rSnap))

\* ------------------------------------------------- the reward-only system
\* every user has been through the ensure-user step (with some referral
\* id); from there only the reward transaction is run, by direct calls
InitReward ==
  /\ ver \in {2, 3}
  /\ \E f \in [UserIds -> Tokens] :
       users = [u \in UserIds |->
                  WriteDoc(EmptyDoc, EnsureUserWrite(ver, Event(u, f[u], "n1"), FALSE))]
  /\ ref_rewards = NoUsers
  /\ inbox \in {DirectCalls} \cup {{c} : c \in DirectCalls}
  /\ InitProcs

NextReward ==
  \E p \in Procs :
    \/ BeginReward(p)
    \/ TxGetUser(p)
    \/ TxGetReferrer(p)
    \/ TxCommit(p)

SpecReward == InitReward /\ [][NextReward]_vars

\* ---------------------------------------------- the duplicate-delivery system
\* the referrer has been through one handler run of its own; one event of
\* another user, carrying the referrer's id, is delivered again and again
ReferrerEvent(e) == Event(e.referralId, Null, "n1")

DupEvents == {e \in Events : e.referralId \in UserIds \ {e.userId}}

InitDup ==
  /\ ver \in {2, 3}
  /\ \E e \in DupEvents :
       /\ inbox = {e}
       /\ users = HandleOnce(ver, EmptyDB, ReferrerEvent(e)).users
  /\ ref_rewards = NoUsers
  /\ InitProcs

NextDup ==
  \E p \in Procs :
    \/ Start(p)
    \/ GetDocSafe(p)
    \/ SetDoc(p)
    \/ TxGetUser(p)
    \/ TxGetReferrer(p)
    \/ TxCommit(p)
    \/ Send(p)

SpecDup == InitDup /\ [][NextDup]_vars

\* ------------------------------------------------------------- the claims
AllIdle == \A p \in Procs : pc[p] = "idle"

Coins(u) == IF u \in DOMAIN users THEN NumOr0(users[u], "coins") ELSE 0
Reffer(u) == IF u \in DOMAIN users THEN NumOr0(users[u], "reffer") ELSE 0

\* the one call the reward-only system repeats: a valid referral id that
\* names another, existing user
SameValidCall(c) ==
  /\ inbox = {c}
  /\ c.referralId \in UserIds \ {c.userId}

\* C1: however many runs of the reward transaction for the same user and
\* the same valid referral id have finished, overlapping or not, there is
\* exactly one ledger entry, keyed by that user, and the referrer holds
\* 500 coins and 1 referral more than before (it started with none).
C1_ExactlyOnce ==
  \A c \in DirectCalls :
    (SameValidCall(c) /\ AllIdle /\ started >= 1) =>
      /\ DOMAIN ref_rewards = {c.userId}
      /\ Coins(c.referralId) = Reward
      /\ Reffer(c.referralId) = 1

C1_Witness ==
  \E c \in DirectCalls :
    /\ SameValidCall(c) /\ AllIdle /\ started = MaxRuns
    /\ DOMAIN ref_rewards = {c.userId}
    /\ Coins(c.referralId) = Reward

\* the step is the commit (or the refusal) of the transaction of p
CommitStep(p) == pc[p] = "txCommit" /\ pc'[p] # "txCommit"

StoreUnchanged == users' = users /\ ref_rewards' = ref_rewards

\* C2 (as claimed): once the same event has been handled two or more times
\* by the whole handler, in any interleaving, users and ref_rewards are what
\* one delivery alone leaves.
C2_DuplicateDelivery ==
  \A e \in DupEvents :
    (inbox = {e} /\ AllIdle /\ started >= 2) =>
      DB = HandleOnce(ver, HandleOnce(ver, EmptyDB, ReferrerEvent(e)), e)

\* C10: once a reward is committed for a user (its ledger entry exists),
\* the commit of any run of the reward transaction for that user, whatever
\* the referral id, writes nothing: users and ref_rewards stay as they are.
C10_IdempotentRepeat ==
  [][\A p \in Procs :
       (CommitStep(p) /\ req[p].userId \in DOMAIN ref_rewards) => StoreUnchanged]_vars

C10_Witness ==
  \E p \in Procs :
    /\ pc[p] = "txCommit" /\ ~stale[p]
    /\ req[p].userId \in DOMAIN ref_rewards
    /\ RewardGivenOf(users[req[p].userId])
    /\ req[p].referralId \in UserIds \ {req[p].userId}
    /\ req[p].referralId # ref_rewards[req[p].userId].referrerId

CoinsIn(coll, u) == IF u \in DOMAIN coll THEN NumOr0(coll[u], "coins") ELSE 0
RefferIn(coll, u) == IF u \in DOMAIN coll THEN NumOr0(coll[u], "reffer") ELSE 0
RefferByIn(coll, u) == IF u \in DOMAIN coll THEN RefferByOf(coll[u]) ELSE Null
RewardGivenIn(coll, u) == u \in DOMAIN coll /\ RewardGivenOf(coll[u])

Keys == UserIds \cup Strangers

\* the ledger entries that name r as the referrer
RewardsNaming(ledger, r) == {u \in DOMAIN ledger : ledger[u].referrerId = r}

\* C3 (as claimed): a user's rewardGiven, once true in the store, is true in
\* every later state.
C3_RewardGivenMonotonic ==
  [][\A u \in Keys : RewardGivenIn(users, u) => RewardGivenIn(users', u)]_vars

\* C4 (as claimed): a user's refferBy, once non-null in the store, keeps its
\* value in every later state.
C4_WriteOnceAttribution ==
  [][\A u \in Keys :
       Truthy(RefferByIn(users, u)) => RefferByIn(users', u) = RefferByIn(users, u)]_vars

\* C5 (as claimed, its state half): in every state every user's coins are
\* 500 times, and its reffer count is, the number of ledger entries naming
\* it as referrer.
C5_BalanceMatchesLedger ==
  \A r \in Keys :
    /\ CoinsIn(users, r) = Reward * Cardinality(RewardsNaming(ref_rewards, r))
    /\ RefferIn(users, r) = Cardinality(RewardsNaming(ref_rewards, r))

\* C6: in every state, a user whose rewardGiven is true has a ledger entry
\* under its own key, and that entry's referrerId is the user's refferBy.
C6_RewardedHasLedger ==
  \A u \in DOMAIN users :
    RewardGivenOf(users[u]) =>
      /\ u \in DOMAIN ref_rewards
      /\ ref_rewards[u].referrerId = RefferByOf(users[u])

\* a rewarded user whose stored referrer is not the referral id of the
\* event that paid the reward (version 3 credits the latter)
C6_Witness ==
  \E u \in DOMAIN users :
    /\ RewardGivenOf(users[u])
    /\ u \in DOMAIN ref_rewards
    /\ ref_rewards[u].referrerId = RefferByOf(users[u])
    /\ CoinsIn(users, RefferByOf(users[u])) = 0
    /\ \E r \in Keys : CoinsIn(users, r) = Reward

\* C7 (as claimed): in every state no user's refferBy is its own id.
C7_NoSelfReferrer ==
  \A u \in DOMAIN users : RefferByOf(users[u]) # u

\* C8 (as claimed): the commit of a run of the reward transaction whose
\* referral id is the user's own id creates no ledger entry, leaves the
\* user's refferBy as it is and changes nobody's coins.
SelfRunWritesNothing(p) ==
  /\ ref_rewards' = ref_rewards
  /\ RefferByIn(users', req[p].userId) = RefferByIn(users, req[p].userId)
  /\ \A k \in Keys : CoinsIn(users', k) = CoinsIn(users, k)

C8_SelfReferralGuard ==
  [][\A p \in Procs :
       (CommitStep(p) /\ req[p].referralId = req[p].userId)
         => SelfRunWritesNothing(p)]_vars

\* C8 (amended): the same, for a user that has no stored refferBy when the
\* transaction commits.
C8_SelfReferralGuardUnattributed ==
  [][\A p \in Procs :
       (/\ CommitStep(p)
        /\ req[p].referralId = req[p].userId
        /\ ~Truthy(RefferByIn(users, req[p].userId)))
         => SelfRunWritesNothing(p)]_vars

C8_Witness ==
  \E p \in Procs :
    /\ pc[p] = "txCommit" /\ ~stale[p]
    /\ req[p].referralId = req[p].userId
    /\ userDoc[p].exists
    /\ ~Truthy(RefferByIn(users, req[p].userId))

\* the referrer the running transaction of p has settled on
EffectiveReferrer(p) ==
  IF ver = 3 THEN CurrentReferrer3(req[p], userDoc[p])
  ELSE IF ver = 2 THEN FinalReferrerId(req[p], userDoc[p])
  ELSE RefferByOf(userDoc[p].data)

\* C9 (as claimed, its first half): a transaction that commits for a user
\* whose effective referrer has no record writes nothing.
C9_MissingReferrerNoWrites ==
  [][\A p \in Procs :
       (/\ CommitStep(p) /\ ~stale[p]
        /\ userDoc[p].exists
        /\ Truthy(EffectiveReferrer(p))
        /\ EffectiveReferrer(p) \notin DOMAIN users)
         => StoreUnchanged]_vars

\* ------------------------------------------------ the first-delivery system
\* the referrer has been through one handler run of its own (no coins, no
\* referrals yet); a user with no record sends /start with a payload that
\* names the referrer: its id, or its id behind the prefix of a referral link
NamedUser(payload) ==
  CASE payload \in {"refu1", "ref_u1"} -> "u1"
    [] payload \in {"refu2", "ref_u2"} -> "u2"
    [] OTHER -> payload

FirstEvents ==
  {e \in {Event(u, w, "n1") : u \in UserIds, w \in UserIds \cup PrefixedPayloads} :
     NamedUser(e.referralId) # e.userId}

InitFirst ==
  /\ ver \in Versions
  /\ \E e \in FirstEvents :
       /\ inbox = {e}
       /\ users = HandleOnce(ver, EmptyDB,
                             Event(NamedUser(e.referralId), Null, "n1")).users
  /\ ref_rewards = NoUsers
  /\ InitProcs

SpecFirst == InitFirst /\ [][Next]_vars

\* C11 (as claimed): the referrer exists with no coins and no referrals, the
\* user has no record; after one whole handler run on the user's /start
\* naming the referrer, the user's refferBy is the referrer, its rewardGiven
\* is true, the referrer has 500 coins and 1 referral, and the ledger holds
\* exactly one entry, under the user's key, naming the referrer with reward 500.
C11_FirstDelivery ==
  \A e \in FirstEvents :
    (inbox = {e} /\ started = 1 /\ AllIdle) =>
      LET u == e.userId
          r == NamedUser(e.referralId)
      IN /\ RefferByIn(users, u) = r
         /\ RewardGivenIn(users, u)
         /\ CoinsIn(users, r) = Reward
         /\ RefferIn(users, r) = 1
         /\ DOMAIN ref_rewards = {u}
         /\ ref_rewards[u] = LedgerEntry(u, r)

\* C12 (as claimed): every handled /start ends with the welcome message,
\* whatever its reward transaction did: once no invocation is running, as
\* many welcome messages have been sent as invocations were started.
C12_WelcomeAlwaysSent == AllIdle => welcomed = started

\* C13 (as claimed): a ledger entry, once created, stays: every step leaves
\* each existing ref_rewards entry in place with the same referrerId and the
\* same reward.
C13_LedgerImmutable ==
  [][\A u \in DOMAIN ref_rewards :
       /\ u \in DOMAIN ref_rewards'
       /\ ref_rewards'[u].referrerId = ref_rewards[u].referrerId
       /\ ref_rewards'[u].reward = ref_rewards[u].reward]_vars

\* the step in which invocation p runs the setDoc of its ensure-user step
EnsureUserStep(p) == pc[p] = "setDoc" /\ pc'[p] # "setDoc"

\* C14 (as claimed): whatever the interleaving of the invocations, the setDoc
\* of an ensure-user step never lowers a user's coins or referral count,
\* never turns rewardGiven back to false and never changes a refferBy that
\* was set.
C14_EnsureUserNeverResets ==
  [][\A p \in Procs : EnsureUserStep(p) =>
       \A u \in Keys :
         /\ CoinsIn(users', u) >= CoinsIn(users, u)
         /\ RefferIn(users', u) >= RefferIn(users, u)
         /\ RewardGivenIn(users, u) => RewardGivenIn(users', u)
         /\ Truthy(RefferByIn(users, u)) =>
              RefferByIn(users', u) = RefferByIn(users, u)]_vars

\* the fields the ensure-user step must leave alone on an existing record
FrameFields ==
  {"refferBy", "rewardGiven", "coins", "reffer", "tasksCompleted", "totalWithdrawals"}

\* document d2 has the fields of FrameFields exactly as document d1 has them
SameFrame(d1, d2) ==
  \A f \in FrameFields : /\ Has(d1, f) <=> Has(d2, f)
                         /\ Has(d1, f) => d1[f] = d2[f]

\* the record of p's user existed when p's ensure-user step looked for it:
\* version 3 decides on the result of getDocSafe, version 2 does not look
\* and merges
FoundExisting(p) ==
  /\ req[p].userId \in DOMAIN users
  /\ ver = 3 => snapExists[p]

\* C15: an ensure-user step that finds a record for its user changes, in the
\* whole store, at most the identity fields of that record: its refferBy,
\* rewardGiven, coins, reffer, tasksCompleted and totalWithdrawals are what
\* they were (absent fields stay absent), no other record changes and the
\* ledger is untouched.
C15_EnsureUserFrame ==
  [][\A p \in Procs : (EnsureUserStep(p) /\ FoundExisting(p)) =>
       /\ DOMAIN users' = DOMAIN users
       /\ SameFrame(users[req[p].userId], users'[req[p].userId])
       /\ \A k \in DOMAIN users : k # req[p].userId => users'[k] = users[k]
       /\ ref_rewards' = ref_rewards]_vars

\* an ensure-user step has just run for a user who had been rewarded before,
\* and it put the invocation's name on the record
C15_Witness ==
  \E p \in Procs :
    /\ pc[p] = "txGetUser" /\ attempts[p] = 1 /\ ~userDoc[p].read
    /\ RewardGivenIn(users, req[p].userId)
    /\ users[req[p].userId]["name"] = req[p].name

\* ------------------------------------------------ the counted-users system
\* as the reward-only system, on a store where the functionality that owns
\* tasksCompleted and totalWithdrawals has counted on some of the records
\* the ensure-user step left
Counted == [tasksCompleted |-> 2, totalWithdrawals |-> 1]

InitCounters ==
  /\ ver \in {2, 3}
  /\ \E f \in [UserIds -> Tokens], c \in SUBSET UserIds :
       users = [u \in UserIds |->
                  LET d == WriteDoc(EmptyDoc,
                                    EnsureUserWrite(ver, Event(u, f[u], "n1"), FALSE))
                  IN IF u \in c THEN Merge(d, Counted) ELSE d]
  /\ ref_rewards = NoUsers
  /\ inbox \in {{c} : c \in DirectCalls}
  /\ InitProcs

SpecCounters == InitCounters /\ [][NextReward]_vars

TasksCompletedIn(coll, u) ==
  IF u \in DOMAIN coll THEN NumOr0(coll[u], "tasksCompleted") ELSE 0

TotalWithdrawalsIn(coll, u) ==
  IF u \in DOMAIN coll THEN NumOr0(coll[u], "totalWithdrawals") ELSE 0

\* C16 (as claimed): the commit of a reward transaction leaves every user's
\* tasksCompleted and totalWithdrawals (0 when the field is missing) at the
\* value they had before it.
C16_CountersUntouched ==
  [][\A p \in Procs : CommitStep(p) =>
       \A u \in Keys :
         /\ TasksCompletedIn(users', u) = TasksCompletedIn(users, u)
         /\ TotalWithdrawalsIn(users', u) = TotalWithdrawalsIn(users, u)]_vars

\* ------------------------------------------------ the contended system
\* two users who name each other have been through the ensure-user step;
\* the reward transaction is run for both, by direct calls that overlap.
\* A transaction that has started is not left waiting for ever: each of its
\* reads and its commit is eventually answered
InitContended ==
  /\ ver \in {2, 3}
  /\ users = [u \in UserIds |->
                WriteDoc(EmptyDoc,
                         EnsureUserWrite(ver, Event(u, CHOOSE r \in UserIds : r # u, "n1"),
                                         FALSE))]
  /\ ref_rewards = NoUsers
  /\ inbox = {c \in DirectCalls : c.referralId \in UserIds \ {c.userId}}
  /\ InitProcs

FairReward ==
  /\ InitContended
  /\ [][NextReward]_vars
  /\ \A p \in Procs : WF_vars(TxGetUser(p) \/ TxGetReferrer(p) \/ TxCommit(p))

\* invocation p is inside runTransaction
InTransaction(p) == pc[p] \in {"txGetUser", "txGetReferrer", "txCommit"}

\* the step in which p's attempt is refused at commit because of a conflict
ConflictStep(p) == pc[p] = "txCommit" /\ stale[p] /\ pc'[p] # "txCommit"

\* C17: a run of the reward transaction never makes more than MaxAttempts
\* attempts; an attempt refused because a document it read was modified
\* applies no write, and is followed by a new attempt that starts with no
\* snapshot kept (while attempts are left) or by the end of the run; and
\* every run that has started eventually ends.
C17_BoundedRetryTerminates ==
  /\ [](\A p \in Procs : attempts[p] <= MaxAttempts)
  /\ [][\A p \in Procs : ConflictStep(p) =>
          /\ StoreUnchanged
          /\ IF attempts[p] < MaxAttempts
               THEN /\ pc'[p] = "txGetUser"
                    /\ attempts'[p] = attempts[p] + 1
                    /\ ~userDoc'[p].read /\ ~referrerDoc'[p].read
               ELSE ~InTransaction(p)']_vars
  /\ \A p \in Procs : InTransaction(p) ~> pc[p] = "idle"

\* the last attempt of a run has met a conflict and is about to be refused
C17_Witness ==
  \E p \in Procs :
    pc[p] = "txCommit" /\ stale[p] /\ attempts[p] = MaxAttempts

\* ------------------------------------------------ the stored-referrer system
\* user u has referrer s stored and no reward given yet, and s has a record.
\* Version 3 is there after the ensure-user steps of s and of u (payload s);
\* version 2 after u's /start with payload s, handled before s had a record,
\* and the /start of s.  The reward transaction is then run for u by direct
\* calls with one referral id: s again, another id, u's own, or none
StoredDB(v, u, s) ==
  IF v = 3
    THEN ApplyMut(ApplyMut(EmptyDB, EnsureUserWrite(3, Event(s, Null, "n1"), FALSE)),
                  EnsureUserWrite(3, Event(u, s, "n1"), FALSE))
    ELSE HandleOnce(v, HandleOnce(v, EmptyDB, Event(u, s, "n1")), Event(s, Null, "n1"))

OtherUser(u) == CHOOSE s \in UserIds : s # u

InitStored ==
  /\ ver \in {2, 3}
  /\ \E c \in DirectCalls :
       /\ inbox = {c}
       /\ users = StoredDB(ver, c.userId, OtherUser(c.userId)).users
  /\ ref_rewards = NoUsers
  /\ InitProcs

SpecStored == InitStored /\ [][NextReward]_vars

\* C18 (as claimed): the user's record has referrer S stored, rewardGiven is
\* false and S has a record; once the reward transaction has run for the
\* user, whatever referral id T it was given (S, another id, the user's own,
\* none), the user is rewarded, S has the 500 coins and the referral, the
\* ledger entry names S, and an account named by a different T has nothing.
C18_StoredReferrerWins ==
  \A c \in DirectCalls :
    (inbox = {c} /\ started >= 1 /\ AllIdle) =>
      LET u == c.userId
          S == OtherUser(u)
          T == c.referralId
      IN /\ RewardGivenIn(users, u)
         /\ CoinsIn(users, S) = Reward
         /\ RefferIn(users, S) = 1
         /\ u \in DOMAIN ref_rewards
         /\ ref_rewards[u].referrerId = S
         /\ (T # S /\ T # Null) => (CoinsIn(users, T) = 0 /\ RefferIn(users, T) = 0)

\* the fields every user record is to carry
SchemaFields ==
  {"frontendOpened", "coins", "reffer", "tasksCompleted", "totalWithdrawals",
   "rewardGiven"}

\* C19 (as claimed, its general half): whenever no invocation is running,
\* every record of the users collection carries frontendOpened, coins,
\* reffer, tasksCompleted, totalWithdrawals and rewardGiven.
C19_EveryRecordComplete ==
  AllIdle => \A u \in DOMAIN users : \A f \in SchemaFields : Has(users[u], f)

\* ------------------------------------------------ the missing-subject system
\* only some of the users have been through the ensure-user step; the
\* reward transaction is run, by direct calls, for users with and without a
\* record
InitMissing ==
  /\ ver \in {2, 3}
  /\ \E c \in (SUBSET UserIds) \ {UserIds} :
       users = [u \in c |->
                  WriteDoc(EmptyDoc, EnsureUserWrite(ver, Event(u, Null, "n1"), FALSE))]
  /\ ref_rewards = NoUsers
  /\ inbox \in {DirectCalls} \cup {{c} : c \in DirectCalls}
  /\ InitProcs

SpecMissing == InitMissing /\ [][NextReward]_vars

\* p's attempt has read the subject and found no record
SubjectMissing(p) == userDoc[p].read /\ ~userDoc[p].exists

\* C20: an attempt of the reward transaction that found no record for its
\* subject, and met no conflict, commits without a write to users or
\* ref_rewards, and the run ends there, with no further attempt.
C20_SubjectMissingNoWrites ==
  [][\A p \in Procs : (CommitStep(p) /\ SubjectMissing(p) /\ ~stale[p]) =>
       /\ StoreUnchanged
       /\ pc'[p] = AfterReward(p)
       /\ attempts'[p] = 0]_vars

\* a transaction given the id of an existing user as referral id has found
\* no record for its subject and is about to commit
C20_Witness ==
  \E p \in Procs :
    /\ pc[p] = "txCommit" /\ SubjectMissing(p) /\ ~stale[p]
    /\ req[p].referralId \in DOMAIN users
    /\ req[p].referralId # req[p].userId

\* C21 (as claimed): in every state, a user who has a ledger entry has a
\* record with rewardGiven true and with refferBy equal to the referrerId of
\* the entry.
C21_LedgerImpliesRewarded ==
  \A u \in DOMAIN ref_rewards :
    /\ u \in DOMAIN users
    /\ RewardGivenIn(users, u)
    /\ RefferByIn(users, u) = ref_rewards[u].referrerId

====
